---- MODULE Spec2Model ----
(***************************************************************************)
(* Model of include/caffe/common.hpp: the process-wide MemoryHandler       *)
(* (pooled device allocator), the scoped MemoryHandlerActivator, and the   *)
(* per-thread Caffe execution context.                                     *)
(*                                                                         *)
(* The inline code of the header is translated as written.  The bodies of  *)
(* MemoryHandler::Init / mallocGPU / freeGPU / destroy / allocate_memory / *)
(* free_memory and of Caffe::Get live in translation units that are not    *)
(* part of the header; they are modelled from the design description.      *)
(***************************************************************************)
EXTENDS Integers, Sequences, FiniteSets, TLC

\* ------------------------------------------------------------------ bounds
MaxDev == 1          \* number of devices in the machine
MaxActs == 2         \* number of MemoryHandlerActivator objects
MaxPtrs == 1         \* number of simultaneously live device pointers
MaxThreads == 2      \* number of OS threads touching Caffe::Get()
MaxSolvers == 2      \* largest solver_count written
MaxDraws == 2        \* values drawn from one thread's generator

Devices == 0 .. (MaxDev - 1)
Acts == 1 .. MaxActs
Ptrs == 1 .. MaxPtrs
Threads == 1 .. MaxThreads
SolverCounts == 1 .. MaxSolvers

\* byte sizes requested from mallocGPU: the activator's 4-byte smoke test
\* and the buffers requested by the numeric layers
SmokeSize == 4
BufSize == 1024
Sizes == {BufSize}

\* device lists handed to setGPUs / the activator: sequences of distinct
\* device ids in ascending order, the empty list included
RECURSIVE SeqsUpTo(_)
SeqsUpTo(n) ==
  IF n = 0 THEN {<<>>}
  ELSE LET shorter == SeqsUpTo(n - 1)
       IN shorter \cup {Append(s, d) : s \in {x \in shorter : Len(x) = n - 1},
                                       d \in Devices}
Ascending(s) == \A i, j \in 1 .. Len(s) : i < j => s[i] < s[j]
GpuLists == {s \in SeqsUpTo(MaxDev) : Ascending(s)}
Range(s) == {s[i] : i \in 1 .. Len(s)}

\* enum Brew { CPU, GPU }
Brew == {"CPU", "GPU"}

NoAlloc == [size |-> 0, origin |-> "none"]
NullPtr == 0
None == "none"

VARIABLES
  build,    \* preprocessor configuration: CPU_ONLY, USE_CNMEM
  mh,       \* the MemoryHandler singleton: using_pool_, initialized_, gpus_
  pool,     \* device side: reserved pool regions, live allocations
  fatal,    \* the process was terminated by a fatal device error
  act,      \* the MemoryHandlerActivator objects
  ctx,      \* thread-local Caffe instances
  want,     \* per thread: value passed to its last set_mode
  got,      \* per thread: value returned by its last mode() since then
  seen      \* per thread: instance and compute handle it was last handed

allocVars == <<build, mh, pool, fatal, act>>
ctxVars == <<ctx, want, got, seen>>
vars == <<build, mh, pool, fatal, act, ctx, want, got, seen>>

\* ------------------------------------------------------- MemoryHandler
\* MemoryHandler() : using_pool_(false), initialized_(false) {}
MemoryHandlerCtor_noinit ==
  [using_pool_ |-> FALSE, initialized_ |-> TRUE, gpus_ |-> <<>>]
MemoryHandlerCtor ==
  [using_pool_ |-> FALSE, initialized_ |-> FALSE, gpus_ |-> <<>>]

ZeroSetups == [d \in Devices |-> 0]
\* reserved - devices on which pool memory is currently reserved
\* setups   - per device, how often it was set up since the last teardown
\* everInit - the pool has been initialized at some time in this process
\* allocs   - the live device pointers, with size and serving path
\* used     - the pool's count of bytes handed out and not yet returned
EmptyPool ==
  [reserved |-> {}, setups |-> ZeroSetups, everInit |-> FALSE,
   allocs |-> [p \in Ptrs |-> NoAlloc], used |-> 0]

\* The allocator operations are state transformers on a world record
\* w = [mh, pool, fatal, ret, trace]; ret is the pointer written by
\* mallocGPU, trace the MemoryHandler entry points called so far.
World ==
  [mh |-> mh, pool |-> pool, fatal |-> fatal, ret |-> NullPtr, trace |-> <<>>]

\* static void usePool() { Get().using_pool_ = true; }
usePool_forgets(w) == w
usePool(w) ==
  [w EXCEPT !.mh.using_pool_ = TRUE, !.trace = Append(@, "usePool")]

\* static void setGPUs(const std::vector<int>& gpus) { Get().gpus_ = gpus; }
setGPUs(w, gpus) ==
  [w EXCEPT !.mh.gpus_ = gpus, !.trace = Append(@, "setGPUs")]

\* static bool usingPool(): using_pool_ under USE_CNMEM, false otherwise
usingPoolOf(b, h) == IF b.USE_CNMEM THEN h.using_pool_ ELSE FALSE
usingPool == usingPoolOf(build, mh)

\* static void Init(): device-side pool setup across all configured
\* devices; a no-op when already initialized
Init_unguarded(w) ==
  [w EXCEPT !.mh.initialized_ = TRUE,
            !.pool.everInit = TRUE,
            !.pool.reserved = @ \cup Range(w.mh.gpus_),
            !.pool.setups = [d \in Devices |->
                               IF d \in Range(w.mh.gpus_) THEN @[d] + 1 ELSE @[d]]]
Init(w) ==
  IF w.mh.initialized_ THEN w
  ELSE [w EXCEPT !.mh.initialized_ = TRUE,
                 !.pool.everInit = TRUE,
                 !.pool.reserved = @ \cup Range(w.mh.gpus_),
                 !.pool.setups = [d \in Devices |->
                               IF d \in Range(w.mh.gpus_) THEN @[d] + 1 ELSE @[d]]]

FreePtrs(w) == {p \in Ptrs : w.pool.allocs[p] = NoAlloc}
LivePtrs(w) == Ptrs \ FreePtrs(w)
FreshPtr(w) == CHOOSE p \in FreePtrs(w) : \A q \in FreePtrs(w) : p <= q

\* void allocate_memory(void **ptr, size_t size, cudaStream_t stream):
\* from the pool when initialized, otherwise a direct device allocation;
\* a device-side failure (ok = FALSE) is fatal
allocate_memory(w, size, ok) ==
  IF ~ok THEN [w EXCEPT !.fatal = TRUE]
  ELSE LET p == FreshPtr(w)
           o == IF w.mh.initialized_ THEN "pool" ELSE "direct"
       IN [w EXCEPT !.pool.allocs[p] = [size |-> size, origin |-> o],
                    !.pool.used = IF o = "pool" THEN @ + size ELSE @,
                    !.ret = p]

\* static void mallocGPU(void **ptr, size_t size, cudaStream_t stream):
\* initializes the pool lazily when pooling is enabled, then allocates
mallocGPU(w, size, ok) ==
  LET w1 == [w EXCEPT !.trace = Append(@, "mallocGPU")]
  IN allocate_memory(IF w1.mh.using_pool_ THEN Init(w1) ELSE w1, size, ok)

\* void free_memory(void *ptr, cudaStream_t stream): back to the pool
\* when pooling is initialized, else directly to the device.  A pointer
\* that the chosen path does not own is undefined behaviour: the free
\* either trips the device error check (ub = TRUE) or has no effect.
FreePath(w) == IF w.mh.initialized_ THEN "pool" ELSE "direct"
OwnedByPath(w, p) == w.pool.allocs[p].origin = FreePath(w)
free_memory_keeps_count(w, p, ub) ==
  IF OwnedByPath(w, p)
    THEN [w EXCEPT !.pool.allocs[p] = NoAlloc]
    ELSE IF ub THEN [w EXCEPT !.fatal = TRUE] ELSE w
free_memory(w, p, ub) ==
  IF OwnedByPath(w, p)
    THEN [w EXCEPT !.pool.allocs[p] = NoAlloc,
                   !.pool.used = IF FreePath(w) = "pool"
                                   THEN @ - w.pool.allocs[p].size ELSE @]
    ELSE IF ub THEN [w EXCEPT !.fatal = TRUE] ELSE w

\* static void freeGPU(void *ptr, cudaStream_t)
freeGPU(w, p, ub) ==
  free_memory([w EXCEPT !.trace = Append(@, "freeGPU")], p, ub)

\* static void getInfo(size_t *free_mem, size_t *used_mem): the bytes in
\* use, from the pool when it is initialized, else from the device
RECURSIVE SumSizes(_, _, _)
SumSizes(allocs, o, ps) ==
  IF ps = {} THEN 0
  ELSE LET p == CHOOSE q \in ps : TRUE
       IN (IF allocs[p].origin = o THEN allocs[p].size ELSE 0)
            + SumSizes(allocs, o, ps \ {p})
getInfo(w) ==
  [used_mem |-> IF w.mh.initialized_ THEN w.pool.used
                ELSE SumSizes(w.pool.allocs, "direct", Ptrs)]

\* static void destroy(): tears the pool down when there is one, returns
\* the reserved device memory, resets initialized_ and using_pool_
destroy_keeps_enabled(w) ==
  LET torn == IF w.mh.initialized_
                THEN [w EXCEPT !.pool.reserved = {},
                               !.pool.setups = ZeroSetups,
                               !.pool.used = 0,
                               !.pool.allocs = [p \in Ptrs |->
                                   IF @[p].origin = "pool" THEN NoAlloc ELSE @[p]]]
                ELSE w
  IN [torn EXCEPT !.mh.initialized_ = FALSE, !.trace = Append(@, "destroy")]
destroy(w) ==
  LET torn == IF w.mh.initialized_
                THEN [w EXCEPT !.pool.reserved = {},
                               !.pool.setups = ZeroSetups,
                               !.pool.used = 0,
                               !.pool.allocs = [p \in Ptrs |->
                                   IF @[p].origin = "pool" THEN NoAlloc ELSE @[p]]]
                ELSE w
  IN [torn EXCEPT !.mh.initialized_ = FALSE, !.mh.using_pool_ = FALSE,
                  !.trace = Append(@, "destroy")]

\* ------------------------------------------------ MemoryHandlerActivator
\* using_pool_ is the object's member; the other fields record its history:
\* nonempty - it was constructed with a non-empty device list
\* calls    - the MemoryHandler entry points its constructor and
\*            destructor have called
\* exit     - how its scope ended
\* clean    - empty list, the pool was off at construction and nothing
\*            has enabled it since
\* intact   - non-empty list and destroy() has not run since construction
NoAct ==
  [state |-> "unborn", using_pool_ |-> 0, nonempty |-> FALSE, calls |-> <<>>,
   exit |-> None, clean |-> FALSE, intact |-> FALSE]

\* if (gpus.size() > 0)
ActivatorEnables_always(gpus) == Len(gpus) >= 0
ActivatorEnables(gpus) == Len(gpus) > 0

\* the member written by the constructor:
\*   : using_pool_(false) { if (gpus.size() > 0) { using_pool_ = true; ...
ActivatorFlag_unset(gpus) == 0
ActivatorFlag(gpus) == IF ActivatorEnables(gpus) THEN 1 ELSE 0

\* the constructor allocates and frees: list accepted, not #ifdef'd out
SmokeTests(gpus) == ActivatorEnables(gpus) /\ ~build.CPU_ONLY

\* the constructor's effect on the allocator:
\*   usePool(); setGPUs(gpus); [mallocGPU(&temp, 4); freeGPU(temp);]
ActivatorCtorWorld_allocates_early(w, gpus, ok) ==
  IF ActivatorEnables(gpus)
    THEN IF ~SmokeTests(gpus) THEN setGPUs(usePool(w), gpus)
         ELSE LET w3 == mallocGPU(usePool(w), SmokeSize, ok)
              IN IF w3.fatal THEN w3
                 ELSE setGPUs(freeGPU(w3, w3.ret, TRUE), gpus)
    ELSE w
ActivatorCtorWorld(w, gpus, ok) ==
  IF ActivatorEnables(gpus)
    THEN LET w2 == setGPUs(usePool(w), gpus)
         IN IF ~SmokeTests(gpus) THEN w2
            ELSE LET w3 == mallocGPU(w2, SmokeSize, ok)
                 IN IF w3.fatal THEN w3 ELSE freeGPU(w3, w3.ret, TRUE)
    ELSE w

\* ~MemoryHandlerActivator() { if (using_pool_) MemoryHandler::destroy(); }
ActivatorDestroys_inverted(a) == act[a].using_pool_ = 0
ActivatorDestroys(a) == act[a].using_pool_ # 0
ActivatorDtorWorld(w, a) == IF ActivatorDestroys(a) THEN destroy(w) ELSE w

\* ------------------------------------------------------------ Caffe
\* shared_ptr<RNG> random_generator_: serial 0 is the null pointer,
\* otherwise the serial-th facade this thread constructed; pos is the
\* number of values drawn from that facade's sequence
NoRng == [serial |-> 0, pos |-> 0]

\* inst is the identity of the object, cublas_handle_ that of the handle
\* it owns (0: none)
NoObj == 0
NoCtx == [exists |-> FALSE, mode_ |-> None, solver_count_ |-> 0,
          root_solver_ |-> FALSE, inst |-> NoObj, cublas_handle_ |-> NoObj,
          random_generator_ |-> NoRng]

\* new Caffe() on thread t: a thread constructs at most one instance, so
\* the object is named after the constructing thread, and the handle its
\* constructor creates (not under CPU_ONLY) after the object
NewCaffe(t, dflt) ==
  [dflt EXCEPT !.inst = t,
               !.cublas_handle_ = IF build.CPU_ONLY THEN NoObj ELSE t]

\* static Caffe& Get(): the calling thread's instance, created on first
\* access with the defaults dflt
Get_shared(c, t, dflt) ==
  IF c[t].exists THEN c
  ELSE IF \E u \in Threads : c[u].exists
         THEN [c EXCEPT ![t] = c[CHOOSE u \in Threads : c[u].exists]]
         ELSE [c EXCEPT ![t] = NewCaffe(t, dflt)]
Get(c, t, dflt) ==
  IF c[t].exists THEN c ELSE [c EXCEPT ![t] = NewCaffe(t, dflt)]
CtxDefaults ==
  [exists : {TRUE}, mode_ : Brew, solver_count_ : {1}, root_solver_ : BOOLEAN,
   inst : {NoObj}, cublas_handle_ : {NoObj}, random_generator_ : {NoRng}]

\* inline static cublasHandle_t cublas_handle() { return Get().cublas_handle_; }
cublas_handle_first(c, t, dflt) ==
  Get(c, t, dflt)[CHOOSE u \in Threads : Get(c, t, dflt)[u].exists].cublas_handle_
cublas_handle(c, t, dflt) == Get(c, t, dflt)[t].cublas_handle_

\* inline static RNG& rng_stream():
\*   if (!Get().random_generator_) Get().random_generator_.reset(new RNG());
\*   return *(Get().random_generator_);
rng_stream_always_constructs(c, t, dflt) ==
  [Get(c, t, dflt) EXCEPT ![t].random_generator_ =
                            [serial |-> @.serial + 1, pos |-> 0]]
rng_stream(c, t, dflt) ==
  LET g == Get(c, t, dflt)
  IN IF g[t].random_generator_ = NoRng
       THEN [g EXCEPT ![t].random_generator_ =
                        [serial |-> @.serial + 1, pos |-> 0]]
       ELSE g

\* inline static void set_mode(Brew mode) { Get().mode_ = mode; }
set_mode_shared(c, t, dflt, m) ==
  [u \in Threads |-> IF Get(c, t, dflt)[u].exists
                       THEN [Get(c, t, dflt)[u] EXCEPT !.mode_ = m]
                       ELSE Get(c, t, dflt)[u]]
set_mode(c, t, dflt, m) == [Get(c, t, dflt) EXCEPT ![t].mode_ = m]

\* inline static Brew mode() { return Get().mode_; }
mode(c, t, dflt) == Get(c, t, dflt)[t].mode_

\* inline static void set_solver_count(int val) { Get().solver_count_ = val; }
set_solver_count_resets_mode(c, t, dflt, v) ==
  [Get(c, t, dflt) EXCEPT ![t].solver_count_ = v, ![t].mode_ = "CPU"]
set_solver_count(c, t, dflt, v) == [Get(c, t, dflt) EXCEPT ![t].solver_count_ = v]

\* inline static void set_root_solver(bool val) { Get().root_solver_ = val; }
set_root_solver(c, t, dflt, v) == [Get(c, t, dflt) EXCEPT ![t].root_solver_ = v]

\* ------------------------------------------------------------- Init
\* the pool library needs the device runtime: no USE_CNMEM with CPU_ONLY
Builds == {b \in [CPU_ONLY : BOOLEAN, USE_CNMEM : BOOLEAN] :
             ~(b.CPU_ONLY /\ b.USE_CNMEM)}

NoSeen == [inst |-> NoObj, handle |-> NoObj, rng |-> NoObj]

Start ==
  /\ build \in Builds
  /\ mh = MemoryHandlerCtor
  /\ pool = EmptyPool
  /\ fatal = FALSE
  /\ act = [a \in Acts |-> NoAct]
  /\ ctx = [t \in Threads |-> NoCtx]
  /\ want = [t \in Threads |-> None]
  /\ got = [t \in Threads |-> None]
  /\ seen = [t \in Threads |-> NoSeen]

\* ---------------------------------------------------------- actions
Commit(w) == /\ mh' = w.mh
             /\ pool' = w.pool
             /\ fatal' = w.fatal

\* bookkeeping of what happened during the live activations' scopes
Enabled_(A) == [a \in Acts |-> [A[a] EXCEPT !.clean = FALSE]]
Destroyed_(A) == [a \in Acts |-> [A[a] EXCEPT !.intact = FALSE]]

UsePoolCall ==
  /\ ~fatal
  /\ Commit(usePool(World))
  /\ act' = Enabled_(act)
  /\ UNCHANGED <<build, ctx, want, got, seen>>

SetGPUsCall ==
  /\ ~fatal
  /\ \E g \in GpuLists : Commit(setGPUs(World, g))
  /\ UNCHANGED <<build, act, ctx, want, got, seen>>

MallocGPUCall ==
  /\ ~fatal
  /\ ~build.CPU_ONLY
  /\ FreePtrs(World) # {}
  /\ \E n \in Sizes, ok \in BOOLEAN : Commit(mallocGPU(World, n, ok))
  /\ UNCHANGED <<build, act, ctx, want, got, seen>>

FreeGPUCall ==
  /\ ~fatal
  /\ ~build.CPU_ONLY
  /\ \E p \in LivePtrs(World) :
       \E ub \in (IF OwnedByPath(World, p) THEN {FALSE} ELSE BOOLEAN) :
          Commit(freeGPU(World, p, ub))
  /\ UNCHANGED <<build, act, ctx, want, got, seen>>

DestroyCall ==
  /\ ~fatal
  /\ Commit(destroy(World))
  /\ act' = Destroyed_(act)
  /\ UNCHANGED <<build, ctx, want, got, seen>>

\* MemoryHandlerActivator a(gpus); objects are numbered in construction order
Unborn == {a \in Acts : act[a].state = "unborn"}
NextAct == CHOOSE a \in Unborn : \A b \in Unborn : a <= b

ActivatorCtor ==
  /\ ~fatal
  /\ Unborn # {}
  /\ \E a \in {NextAct}, g \in GpuLists :
     \E ok \in (IF SmokeTests(g) THEN BOOLEAN ELSE {TRUE}) :
       /\ SmokeTests(g) => FreePtrs(World) # {}
       /\ LET w == ActivatorCtorWorld(World, g, ok)
              others == IF "usePool" \in Range(w.trace)
                          THEN Enabled_(act) ELSE act
          IN /\ Commit(w)
             /\ act' = IF w.fatal THEN others
                       ELSE [others EXCEPT ![a] =
                               [state |-> "alive",
                                using_pool_ |-> ActivatorFlag(g),
                                nonempty |-> Len(g) > 0,
                                calls |-> w.trace,
                                exit |-> None,
                                clean |-> Len(g) = 0 /\ ~mh.using_pool_,
                                intact |-> Len(g) > 0]]
  /\ UNCHANGED <<build, ctx, want, got, seen>>

\* the activation's scope ends, by a normal return or by an exception
\* unwinding through it; either way the destructor runs
ActivatorDtor ==
  /\ ~fatal
  /\ \E a \in Acts, how \in {"return", "throw"} :
       /\ act[a].state = "alive"
       /\ LET w == ActivatorDtorWorld(World, a)
              others == IF "destroy" \in Range(w.trace)
                          THEN Destroyed_(act) ELSE act
          IN /\ Commit(w)
             /\ act' = [others EXCEPT ![a].state = "ended",
                                      ![a].exit = how,
                                      ![a].clean = FALSE,
                                      ![a].intact = FALSE,
                                      ![a].calls = @ \o w.trace]
  /\ UNCHANGED <<build, ctx, want, got, seen>>

\* the values a fresh instance may start with matter only to a thread
\* that has no instance yet
Defaults(t) == IF ctx[t].exists THEN {ctx[t]} ELSE CtxDefaults

SetMode ==
  /\ \E t \in Threads, m \in Brew : \E d \in Defaults(t) :
       /\ ctx' = set_mode(ctx, t, d, m)
       /\ want' = [want EXCEPT ![t] = m]
       /\ got' = [got EXCEPT ![t] = None]
  /\ UNCHANGED seen
  /\ UNCHANGED allocVars

GetMode ==
  /\ \E t \in Threads : \E d \in Defaults(t) :
       /\ ctx' = Get(ctx, t, d)
       /\ got' = [got EXCEPT ![t] = mode(ctx, t, d)]
  /\ UNCHANGED <<want, seen>>
  /\ UNCHANGED allocVars

SetSolverCount ==
  /\ \E t \in Threads, v \in SolverCounts : \E d \in Defaults(t) :
       ctx' = set_solver_count(ctx, t, d, v)
  /\ UNCHANGED <<want, got, seen>>
  /\ UNCHANGED allocVars

SetRootSolver ==
  /\ \E t \in Threads, v \in BOOLEAN : \E d \in Defaults(t) :
       ctx' = set_root_solver(ctx, t, d, v)
  /\ UNCHANGED <<want, got, seen>>
  /\ UNCHANGED allocVars

\* Caffe::Get() called on thread t
GetCall ==
  /\ \E t \in Threads : \E d \in Defaults(t) :
       /\ ctx' = Get(ctx, t, d)
       /\ seen' = [seen EXCEPT ![t].inst = Get(ctx, t, d)[t].inst]
  /\ UNCHANGED <<want, got>>
  /\ UNCHANGED allocVars

\* Caffe::cublas_handle() called on thread t (#ifndef CPU_ONLY)
CublasHandle ==
  /\ ~build.CPU_ONLY
  /\ \E t \in Threads : \E d \in Defaults(t) :
       /\ ctx' = Get(ctx, t, d)
       /\ seen' = [seen EXCEPT ![t].inst = Get(ctx, t, d)[t].inst,
                               ![t].handle = cublas_handle(ctx, t, d)]
  /\ UNCHANGED <<want, got>>
  /\ UNCHANGED allocVars

\* Caffe::rng_stream() called on thread t
RngStream ==
  /\ \E t \in Threads : \E d \in Defaults(t) :
       LET c == rng_stream(ctx, t, d)
       IN /\ ctx' = c
          /\ seen' = [seen EXCEPT ![t].rng = c[t].random_generator_.serial]
  /\ UNCHANGED <<want, got>>
  /\ UNCHANGED allocVars

\* thread t draws the next value of its sequence through
\* rng_stream().generator()
Draw ==
  /\ \E t \in Threads : \E d \in Defaults(t) :
       LET c == rng_stream(ctx, t, d)
       IN /\ c[t].random_generator_.pos < MaxDraws
          /\ ctx' = [c EXCEPT ![t].random_generator_.pos = @ + 1]
          /\ seen' = [seen EXCEPT ![t].rng = c[t].random_generator_.serial]
  /\ UNCHANGED <<want, got>>
  /\ UNCHANGED allocVars

NextAlloc ==
  \/ UsePoolCall
  \/ SetGPUsCall
  \/ MallocGPUCall
  \/ FreeGPUCall
  \/ DestroyCall
  \/ ActivatorCtor
  \/ ActivatorDtor

NextCtx ==
  \/ SetMode
  \/ GetMode
  \/ SetSolverCount
  \/ SetRootSolver

\* first and repeated accesses to the thread's instance and its handle
NextInst ==
  \/ GetCall
  \/ CublasHandle
  \/ SetMode

\* first and repeated accesses to the thread's generator
NextRng ==
  \/ GetCall
  \/ RngStream
  \/ Draw

\* the setters, next to calls that give the generator and the allocator
\* a state of their own
NextFrame ==
  \/ SetMode
  \/ SetSolverCount
  \/ SetRootSolver
  \/ RngStream
  \/ UsePoolCall

Next == NextAlloc \/ NextCtx \/ NextInst \/ NextRng \/ NextFrame

Spec == Start /\ [][Next]_vars
SpecAlloc == Start /\ [][NextAlloc]_vars
SpecCtx == Start /\ [][NextCtx]_vars
SpecInst == Start /\ [][NextInst]_vars
SpecRng == Start /\ [][NextRng]_vars
\* the setters are compiled the same way in every build
StartFrame == Start /\ build = [CPU_ONLY |-> FALSE, USE_CNMEM |-> TRUE]
SpecFrame == StartFrame /\ [][NextFrame]_vars

TypeOK ==
  /\ build \in Builds
  /\ mh \in [using_pool_ : BOOLEAN, initialized_ : BOOLEAN, gpus_ : GpuLists]
  /\ pool.reserved \subseteq Devices
  /\ fatal \in BOOLEAN
  /\ \A a \in Acts : act[a].state \in {"unborn", "alive", "ended"}
  /\ \A t \in Threads : ctx[t].exists => ctx[t].mode_ \in Brew

\* ------------------------------------------------------------ claims
Alive(a) == act[a].state = "alive"
Ended(a) == act[a].state = "ended"
CountOf(seq, x) == Cardinality({i \in 1 .. Len(seq) : seq[i] = x})
PoolPtrs == {p \in Ptrs : pool.allocs[p].origin = "pool"}
DirectPtrs == {p \in Ptrs : pool.allocs[p].origin = "direct"}

\* C1: in every reachable state of the allocator, initialized_ implies
\* using_pool_.
C1_InitializedImpliesEnabled == mh.initialized_ => mh.using_pool_

\* the lazy Init has run on behalf of an activation that is still alive
C1_Witness ==
  /\ mh.initialized_
  /\ pool.reserved # {}
  /\ \E a \in Acts : Alive(a) /\ act[a].nonempty

\* C2: an activation constructed with a non-empty device list has called
\* destroy() exactly once when its scope has ended, on the normal and on
\* the exceptional exit path, and not at all before that.
C2_DestroyExactlyOnce ==
  \A a \in Acts :
    act[a].nonempty =>
      /\ Alive(a) => CountOf(act[a].calls, "destroy") = 0
      /\ Ended(a) => CountOf(act[a].calls, "destroy") = 1

\* a non-empty activation whose scope was left by an exception
C2_Witness ==
  \E a \in Acts :
    /\ Ended(a)
    /\ act[a].nonempty
    /\ act[a].exit = "throw"
    /\ CountOf(act[a].calls, "destroy") = 1

\* C3: constructing and destroying an activation with an empty device
\* list leaves using_pool_, initialized_, gpus_ and the device side
\* unchanged and calls no MemoryHandler entry point at all.
EmptyCtorStep(a) ==
  act[a].state = "unborn" /\ act'[a].state = "alive" /\ ~act'[a].nonempty
EmptyDtorStep(a) ==
  Alive(a) /\ ~act[a].nonempty /\ act'[a].state = "ended"
C3_EmptyActivationNoSideEffects ==
  [][\A a \in Acts :
       (EmptyCtorStep(a) \/ EmptyDtorStep(a)) =>
          /\ mh' = mh
          /\ pool' = pool
          /\ fatal' = fatal
          /\ act'[a].calls = <<>>]_vars

\* an empty activation has been constructed and destroyed while the pool
\* was up
C3_Witness ==
  \E a \in Acts :
    /\ Ended(a)
    /\ ~act[a].nonempty
    /\ act[a].calls = <<>>
    /\ mh.using_pool_
    /\ mh.initialized_

\* C4 as stated: while an activation constructed with an empty device
\* list is alive, usingPool() reports false, whatever else happens.
C4_Original ==
  \A a \in Acts : (Alive(a) /\ ~act[a].nonempty) => ~usingPool

\* C4 amended: while an activation constructed with an empty device list
\* at a moment when the pool was not enabled is alive, usingPool()
\* reports false as long as neither usePool() has been called nor an
\* activation with a non-empty list has been constructed since.
C4_EmptyScopeReportsFalse ==
  \A a \in Acts : (Alive(a) /\ ~act[a].nonempty /\ act[a].clean) => ~usingPool

\* an empty activation is alive in a pool-capable build while other
\* allocator traffic has happened
C4_Witness ==
  \E a \in Acts :
    /\ Alive(a)
    /\ ~act[a].nonempty
    /\ act[a].clean
    /\ build.USE_CNMEM
    /\ DirectPtrs # {}
    /\ mh.gpus_ # <<>>

\* C5 as stated: while an activation constructed with a non-empty device
\* list is alive, the pool is enabled, also when other activations are
\* constructed and destroyed in the meantime.
C5_Original ==
  \A a \in Acts : (Alive(a) /\ act[a].nonempty) => mh.using_pool_

\* C5 amended: while an activation constructed with a non-empty device
\* list is alive, the pool is enabled as long as destroy() has not run
\* since its construction (neither called directly nor by the destructor
\* of another activation with a non-empty list).
C5_ActiveScopeKeepsPoolEnabled ==
  \A a \in Acts : (Alive(a) /\ act[a].nonempty /\ act[a].intact) => mh.using_pool_

\* two overlapping non-empty activations, none torn down yet
C5_Witness ==
  \E a, b \in Acts :
    /\ a # b
    /\ Alive(a) /\ act[a].nonempty /\ act[a].intact
    /\ Alive(b) /\ act[b].nonempty
    /\ mh.using_pool_

\* a step in which destroy() runs: a direct call or the destructor of an
\* activation that holds the pool
DestroyStep ==
  \/ DestroyCall
  \/ /\ ActivatorDtor
     /\ \E a \in Acts : Alive(a) /\ act'[a].state = "ended"
                        /\ CountOf(act'[a].calls, "destroy") > 0

\* a step in which mallocGPU runs: a direct call or the smoke test of an
\* activation's constructor
MallocStep ==
  \/ MallocGPUCall
  \/ /\ ActivatorCtor
     /\ \E a \in Acts : act[a].state = "unborn" /\ act'[a].state = "alive"
                        /\ CountOf(act'[a].calls, "mallocGPU") > 0

\* C6: initialize() is idempotent: an initialization requested while the
\* pool is already initialized leaves it initialized, reserves nothing and
\* sets no device up again; every device is set up at most once between
\* two teardowns.
C6_InitIdempotent ==
  /\ [][(MallocStep /\ mh.initialized_) =>
          /\ mh'.initialized_
          /\ mh'.using_pool_ = mh.using_pool_
          /\ pool'.reserved = pool.reserved
          /\ pool'.setups = pool.setups]_vars
  /\ [](\A d \in Devices : pool.setups[d] <= 1)

\* the pool was initialized by an activation's smoke test and a later
\* mallocGPU, which asked for initialization again, was served from it
C6_Witness ==
  /\ mh.initialized_
  /\ \E a \in Acts : Alive(a) /\ act[a].nonempty /\ act[a].intact
  /\ PoolPtrs # {}
  /\ \E d \in Devices : pool.setups[d] = 1

\* C7 as stated: destroy() leaves initialized_ and using_pool_ false and
\* no pool memory reserved from any state, and when the pool was never
\* initialized it changes no allocator state and raises no error.
C7_Original ==
  [][DestroyStep =>
       /\ ~mh'.initialized_
       /\ ~mh'.using_pool_
       /\ pool'.reserved = {}
       /\ ~pool.everInit => (mh' = mh /\ pool' = pool /\ ~fatal')]_vars

\* C7 amended: destroy() leaves initialized_ and using_pool_ false, no
\* pool memory reserved and no pool allocation live, from any state; when
\* the pool was never initialized it raises no error and changes nothing
\* but the enabled flag, so it is a no-op when the pool was not enabled
\* either.
C7_DestroyResets ==
  [][DestroyStep =>
       /\ ~mh'.initialized_
       /\ ~mh'.using_pool_
       /\ pool'.reserved = {}
       /\ \A p \in Ptrs : pool'.allocs[p].origin # "pool"
       /\ ~pool.everInit =>
            /\ pool' = pool
            /\ ~fatal'
            /\ mh'.gpus_ = mh.gpus_
            /\ (~mh.using_pool_ => mh' = mh)]_vars

\* destroy() has run during the scope of a live activation and has torn
\* down a pool that had been initialized
C7_Witness ==
  /\ ~mh.using_pool_
  /\ ~mh.initialized_
  /\ pool.everInit
  /\ \E a \in Acts : Alive(a) /\ act[a].nonempty /\ ~act[a].intact

\* C8: at the end of the scope of an activation constructed with a
\* non-empty device list the allocator is neither enabled nor
\* initialized, no pool memory is reserved and no pool allocation is
\* live, whatever happened inside the scope.
ActiveDtorStep(a) ==
  Alive(a) /\ act[a].nonempty /\ act'[a].state = "ended"
C8_NoPoolSurvives ==
  [][\A a \in Acts :
       ActiveDtorStep(a) =>
          /\ ~mh'.using_pool_
          /\ ~mh'.initialized_
          /\ pool'.reserved = {}
          /\ \A p \in Ptrs : pool'.allocs[p].origin # "pool"]_vars

\* the scope of a non-empty activation was left by an exception after
\* allocations were made inside it, leaving no pool behind
C8_Witness ==
  /\ \E a \in Acts : Ended(a) /\ act[a].nonempty /\ act[a].exit = "throw"
  /\ pool.everInit
  /\ DirectPtrs # {}
  /\ ~mh.using_pool_
  /\ pool.reserved = {}

\* C10: mode() on a thread returns what that thread's last set_mode
\* stored, whatever set_mode calls other threads make; a thread's mode_
\* is changed by nobody else.
C10_ModeRoundTrip ==
  \A t \in Threads :
    want[t] # None =>
      /\ ctx[t].exists
      /\ ctx[t].mode_ = want[t]
      /\ got[t] # None => got[t] = want[t]

\* two threads hold different modes and each has read its own back
C10_Witness ==
  \E t, u \in Threads :
    /\ t # u
    /\ want[t] = "CPU" /\ got[t] = "CPU"
    /\ want[u] = "GPU" /\ got[u] = "GPU"

\* C11: one Caffe instance per thread: a thread is handed the same
\* instance and the same compute handle by every Get() / cublas_handle(),
\* and two threads are never handed the same instance or the same handle,
\* however their first accesses interleave.
C11_OneInstancePerThread ==
  /\ [](\A t, u \in Threads :
          t # u =>
            /\ (ctx[t].exists /\ ctx[u].exists) => ctx[t].inst # ctx[u].inst
            /\ (seen[t].inst # NoObj /\ seen[u].inst # NoObj)
                 => seen[t].inst # seen[u].inst
            /\ (seen[t].handle # NoObj /\ seen[u].handle # NoObj)
                 => seen[t].handle # seen[u].handle)
  /\ [][\A t \in Threads :
          /\ ctx[t].exists =>
               /\ ctx'[t].inst = ctx[t].inst
               /\ ctx'[t].cublas_handle_ = ctx[t].cublas_handle_
          /\ seen[t].inst # NoObj => seen'[t].inst = seen[t].inst
          /\ seen[t].handle # NoObj => seen'[t].handle = seen[t].handle]_vars

\* two threads have each obtained an instance and a compute handle
C11_Witness ==
  \E t, u \in Threads :
    /\ t # u
    /\ seen[t].inst # NoObj /\ seen[t].handle # NoObj
    /\ seen[u].inst # NoObj /\ seen[u].handle # NoObj
    /\ ctx[t].mode_ # ctx[u].mode_
\* C12: with the pool initialized, mallocGPU of n bytes raises the used
\* bytes reported by getInfo() by n and freeGPU of a pointer the pool
\* served lowers them by that pointer's size, so an allocate followed by
\* the free of its pointer restores the value; the constructor's
\* mallocGPU/freeGPU pair leaves it unchanged; and at all times the used
\* bytes of an initialized pool are those of its live allocations, so any
\* paired sequence ends at its baseline.
C12_PairedAllocFreeRestoresUsed ==
  /\ [](mh.initialized_ =>
          getInfo(World).used_mem = SumSizes(pool.allocs, "pool", Ptrs))
  /\ [][(mh.initialized_ /\ ~fatal' /\ MallocGPUCall) =>
          \E p \in Ptrs :
            /\ pool.allocs[p] = NoAlloc
            /\ pool'.allocs[p].origin = "pool"
            /\ getInfo(World)'.used_mem
                 = getInfo(World).used_mem + pool'.allocs[p].size]_vars
  /\ [][(mh.initialized_ /\ ~fatal' /\ FreeGPUCall) =>
          \A p \in PoolPtrs :
            pool'.allocs[p] = NoAlloc =>
              getInfo(World)'.used_mem
                = getInfo(World).used_mem - pool.allocs[p].size]_vars
  /\ [][(mh.initialized_ /\ ~fatal' /\ ActivatorCtor) =>
          getInfo(World)'.used_mem = getInfo(World).used_mem]_vars

\* a second activation's mallocGPU/freeGPU pair has run on the pool the
\* first one initialized, and a buffer allocated from that pool is live
C12_Witness ==
  /\ mh.initialized_
  /\ \E a, b \in Acts :
       /\ a # b /\ Alive(a) /\ act[a].intact
       /\ Alive(b) /\ "freeGPU" \in Range(act[b].calls)
  /\ \E p \in PoolPtrs : pool.allocs[p].size = BufSize
  /\ getInfo(World).used_mem = BufSize
\* C13: when an activation is constructed with a non-empty device list,
\* usePool() and setGPUs(gpus) are called, in this order, before the
\* first mallocGPU; when that mallocGPU initializes the pool, the pool is
\* set up once on exactly the devices of the list just recorded; and the
\* temporary allocation is freed again before the constructor returns, so
\* the live allocations are those from before the construction.
C13_ConfigureBeforeFirstAllocate ==
  [][\A a \in Acts :
       (act[a].state = "unborn" /\ act'[a].state = "alive"
          /\ act'[a].nonempty /\ ActivatorCtor) =>
         /\ mh'.using_pool_ /\ mh'.gpus_ # <<>>
         /\ build.CPU_ONLY => act'[a].calls = <<"usePool", "setGPUs">>
         /\ ~build.CPU_ONLY =>
              /\ act'[a].calls = <<"usePool", "setGPUs", "mallocGPU", "freeGPU">>
              /\ mh'.initialized_
              /\ ~mh.initialized_ =>
                   /\ pool'.reserved = Range(mh'.gpus_)
                   /\ \A d \in Devices :
                        pool'.setups[d] = IF d \in Range(mh'.gpus_) THEN 1 ELSE 0
         /\ pool'.allocs = pool.allocs
         /\ pool'.used = pool.used]_vars

\* the first activation has been constructed with a non-empty list: its
\* mallocGPU initialized the pool on the devices of that list and the
\* temporary allocation is gone
C13_Witness ==
  /\ ~fatal
  /\ \E a \in Acts :
       /\ Alive(a) /\ act[a].intact
       /\ act[a].calls = <<"usePool", "setGPUs", "mallocGPU", "freeGPU">>
       /\ \A b \in Acts \ {a} : act[b].state = "unborn"
  /\ mh.initialized_
  /\ pool.reserved = Range(mh.gpus_)
  /\ pool.reserved # {}
  /\ \A p \in Ptrs : pool.allocs[p] = NoAlloc
Rng(t) == ctx[t].random_generator_

\* C14: rng_stream() constructs the calling thread's generator facade
\* only when the thread has none: a thread never holds more than its
\* first facade, the facade a call returned is still the thread's facade,
\* and once a thread has a facade no rng_stream() call replaces it or
\* moves its position, so a draw takes the value after the last one drawn.
C14_RngStreamConstructsOnce ==
  /\ [](\A t \in Threads :
          /\ Rng(t).serial <= 1
          /\ seen[t].rng # NoObj => seen[t].rng = Rng(t).serial)
  /\ [][\A t \in Threads :
          Rng(t) # NoRng =>
            /\ Rng(t)'.serial = Rng(t).serial
            /\ Rng(t)'.pos \in {Rng(t).pos, Rng(t).pos + 1}]_vars
  /\ [][RngStream => \A t \in Threads : Rng(t) # NoRng => Rng(t)' = Rng(t)]_vars
  /\ [][\A t \in Threads :
          (Rng(t) = NoRng /\ Rng(t)' # NoRng) =>
            (Rng(t)'.serial = 1 /\ Rng(t)'.pos \in {0, 1})]_vars

\* a thread has drawn MaxDraws values through rng_stream() from its one
\* facade while another thread has a facade of its own at another position
C14_Witness ==
  \E t, u \in Threads :
    /\ t # u
    /\ seen[t].rng = 1 /\ Rng(t) = [serial |-> 1, pos |-> MaxDraws]
    /\ seen[u].rng = 1 /\ Rng(u) = [serial |-> 1, pos |-> 0]
Setter == SetMode \/ SetSolverCount \/ SetRootSolver

\* what a step leaves alone in the contexts that exist before it
KeepsMode == \A t \in Threads : ctx[t].exists => ctx'[t].mode_ = ctx[t].mode_
KeepsSolverCount ==
  \A t \in Threads : ctx[t].exists => ctx'[t].solver_count_ = ctx[t].solver_count_
KeepsRootSolver ==
  \A t \in Threads : ctx[t].exists => ctx'[t].root_solver_ = ctx[t].root_solver_
KeepsRng ==
  \A t \in Threads : ctx[t].exists => ctx'[t].random_generator_ = ctx[t].random_generator_
KeepsOtherThreads ==
  \E t \in Threads : \A u \in Threads \ {t} : ctx'[u] = ctx[u]
KeepsAllocator == mh' = mh /\ pool' = pool /\ fatal' = fatal /\ act' = act

\* C15: a setter changes only its own field: in every context that exists
\* when it is called, set_mode leaves solver_count_, root_solver_ and the
\* generator facade as they were, set_solver_count leaves mode_ and
\* root_solver_, set_root_solver leaves mode_ and solver_count_; a setter
\* changes the context of at most one thread, and none changes the
\* MemoryHandler, the pool or an activation.  Each line reads: a step
\* that does not keep these fields is not a step of that setter.
C15_SettersChangeOwnFieldOnly ==
  [][/\ ~(KeepsSolverCount /\ KeepsRootSolver /\ KeepsRng) => ~SetMode
     /\ ~(KeepsMode /\ KeepsRootSolver /\ KeepsRng) => ~SetSolverCount
     /\ ~(KeepsMode /\ KeepsSolverCount /\ KeepsRng) => ~SetRootSolver
     /\ ~(KeepsOtherThreads /\ KeepsAllocator) => ~Setter]_vars

\* every field of a thread's context has been written by its setter, the
\* thread has a generator facade and pooling has been enabled, while
\* another thread holds other values
C15_Witness ==
  /\ mh.using_pool_
  /\ \E t, u \in Threads :
       /\ t # u /\ ctx[t].exists /\ ctx[u].exists
       /\ want[t] = "GPU" /\ ctx[t].mode_ = "GPU"
       /\ ctx[t].solver_count_ = MaxSolvers
       /\ Rng(t) # NoRng
       /\ ctx[u].mode_ = "CPU" /\ ctx[u].solver_count_ = 1
       /\ ctx[u].root_solver_ # ctx[t].root_solver_
====
